---------------------------- MODULE Spec2Model ----------------------------
(***************************************************************************)
(* php_mt_seed.rs: brute-force recovery of PHP 7.1+ mt_rand seeds on a GPU. *)
(*                                                                         *)
(* The model follows src/src/main.rs: the argument normaliser and linter,  *)
(* the driver loop of main, and find_mersenne_seed (one GPU dispatch and    *)
(* the read-back of its length-prefixed output buffer).  The compute       *)
(* shader mt19937.wgsl is not part of the sources at hand; what the model  *)
(* needs of it (the candidate seed of an invocation, the append to the     *)
(* output buffer) follows the written specification, and which seeds the   *)
(* MT19937 predicate accepts is left open (variable matching).  The GPU    *)
(* is taken to work: no adapter, device or mapping failure is modelled.    *)
(*                                                                         *)
(* TLC's integers are 32-bit signed, so an unsigned 32-bit word is kept as *)
(* the pair <<high 16 bits, low 16 bits>>.                                 *)
(***************************************************************************)
EXTENDS Integers, Sequences, FiniteSets, TLC

----------------------------------------------------------------------------
(* Unsigned 32-bit words *)

U32(hi, lo) == <<hi, lo>>

\* the word of a number below 2^31
U32Of(n) == <<n \div 65536, n % 65536>>

Zero == U32(0, 0)

\* 0x7fffffff
Max31 == U32(32767, 65535)

Gt(a, b) == a[1] > b[1] \/ (a[1] = b[1] /\ a[2] > b[2])

Lt(a, b) == Gt(b, a)

Le(a, b) == ~Gt(a, b)

----------------------------------------------------------------------------
(* Bounds of the model *)

\* longest free tail of tokens tried after the leading slots
MaxTail == 4

\* most leading (valid) slots put before the free tail
MaxPrefixSlots == 8

\* number of untracked matching seeds the model lets one dispatch have
MaxBulk == 998

\* first global invocation id of the untracked matching seeds
BulkBase == 512

----------------------------------------------------------------------------
(* Program constants *)

\* main.rs:133  let max_results = 1_000;
max_results == 1000

\* main.rs:239  compute_pass.dispatch_workgroups(65535, 1, 1);
NumWorkgroups == 65535

\* main.rs:317  for step in 0..256
NumSteps == 256

\* the shader's @workgroup_size
WorkgroupSize == 256

----------------------------------------------------------------------------
(* Argument normaliser and linter *)

\* A mutant of normalize_arguments: the lone last token is not duplicated.
normalize_arguments_nodup(arguments) ==
    LET len == Len(arguments)
    IN  IF len % 4 \in {1, 2}
        THEN arguments \o <<Zero, Max31>>
        ELSE arguments

\* main.rs:24-37
normalize_arguments(arguments) ==
    LET len1 == Len(arguments)
        a1   == IF len1 % 4 = 1
                THEN Append(arguments, arguments[len1])
                ELSE arguments
        len2 == Len(a1)
        a2   == IF len2 % 4 = 2
                THEN [a1 EXCEPT ![len2 - 1] = a1[len2 - 1],
                                ![len2] = a1[len2]] \o <<Zero, Max31>>
                ELSE a1
    IN  a2

\* arguments.chunks(4): the i-th chunk, i from 0; the last one may be short
Chunk(arguments, i) ==
    SubSeq(arguments, 4 * i + 1,
           IF 4 * i + 4 <= Len(arguments) THEN 4 * i + 4 ELSE Len(arguments))

NumChunks(arguments) == (Len(arguments) + 3) \div 4

\* A mutant of SlotOk: the test of range_max against 0x7fffffff is dropped.
SlotOk_norangecap(chunk) ==
    LET match_min == chunk[1]
        match_max == chunk[2]
        range_min == chunk[3]
        range_max == chunk[4]
    IN  ~ (\/ Gt(match_min, match_max)
           \/ Gt(range_min, range_max)
           \/ Lt(match_max, range_min)
           \/ Gt(match_min, range_max)
           \/ Gt(match_max, Max31))

\* the body of the match arm for a full chunk
SlotOk(chunk) ==
    LET match_min == chunk[1]
        match_max == chunk[2]
        range_min == chunk[3]
        range_max == chunk[4]
    IN  ~ (\/ Gt(match_min, match_max)
           \/ Gt(range_min, range_max)
           \/ Lt(match_max, range_min)
           \/ Gt(match_min, range_max)
           \/ Gt(range_max, Max31)
           \/ Gt(match_max, Max31))

\* A mutant of lint_arguments: a short last chunk is let through.
lint_arguments_shortok(arguments) ==
    IF arguments = <<>>
    THEN FALSE
    ELSE \A i \in 0 .. NumChunks(arguments) - 1 :
            LET chunk == Chunk(arguments, i)
            IN  IF Len(chunk) = 4 THEN SlotOk(chunk) ELSE TRUE

\* main.rs:39-62
lint_arguments(arguments) ==
    IF arguments = <<>>
    THEN FALSE
    ELSE \A i \in 0 .. NumChunks(arguments) - 1 :
            LET chunk == Chunk(arguments, i)
            IN  IF Len(chunk) = 4 THEN SlotOk(chunk) ELSE FALSE

----------------------------------------------------------------------------
(* Inputs *)

\* 0x80000000 and 0xffffffff are the words a range may not reach
Tokens == {Zero, U32(0, 5), Max31, U32(32768, 0), U32(65535, 65535)}

TailSeqs == UNION {[1 .. n -> Tokens] : n \in 0 .. MaxTail}

ValidSlot == <<U32(0, 5), U32(0, 5), Zero, Max31>>

RECURSIVE Slots(_)
Slots(n) == IF n = 0 THEN <<>> ELSE ValidSlot \o Slots(n - 1)

\* every token list made of up to MaxPrefixSlots valid slots and a free tail
ArgLists == {Slots(n) \o t : n \in 0 .. MaxPrefixSlots, t \in TailSeqs}


\* main.rs:336, 359-362: the argument lists of two tests, and lists of 0, 3,
\* 7 and 4 * (MaxPrefixSlots + 1) tokens
TestSeed0 == <<U32Of(1178568022)>>

\* the single observation 209663185, which is what PHP's mt_rand() returns
\* first after mt_srand(4294967295)
OutputOfLastSeed == <<U32Of(209663185)>>

TestTooBigRange ==
    <<U32Of(1395647406), U32Of(1395647406), Zero, U32(65535, 65535),
      U32(52990, 25070), U32(52990, 25070), Zero, U32(65535, 65535),
      U32(61631, 653), U32(61631, 653), Zero, U32(65535, 65535)>>

RunArgs ==
    {<<>>, TestSeed0, TestTooBigRange,
     <<U32(0, 5), U32(0, 5), Zero>>,
     ValidSlot \o <<U32(0, 5), U32(0, 5), Zero>>,
     Slots(MaxPrefixSlots + 1)}

\* every token list shorter than one slot
PartialSlots == UNION {[1 .. n -> Tokens] : n \in 0 .. 3}

----------------------------------------------------------------------------
(* The kernel's view of one dispatch *)

\* candidate seed of an invocation: step + 256 * (workgroup_id * 256 +
\* invocation_id), in unsigned 32-bit arithmetic
KernelSeed(st, wg, inv) ==
    LET gid == wg * WorkgroupSize + inv
        t   == st + 256 * (gid % 256)
    IN  U32((gid \div 256 + t \div 65536) % 65536, t % 65536)

\* the step that searches a seed: s mod 256
StepOf(seed) == seed[2] % NumSteps

\* seeds the model follows one by one: 4242 (the seed of a test, of step
\* 146), 254 and 510 (both of step 254), and the highest seeds of step 255
\* for workgroups 65534 and 65535, 0xfffeffff and 0xffffffff
Probes ==
    {U32(0, 4242), U32(0, 254), U32(0, 510), U32(65534, 65535), U32(65535, 65535)}

\* the workgroups and invocations that can produce a followed seed
TrackedWorkgroups == {p[1] : p \in Probes}

TrackedInvocations == {p[2] \div 256 : p \in Probes}

\* dispatch_workgroups(65535, 1, 1): the followed part of the grid
Grid ==
    {<<wg, inv>> \in TrackedWorkgroups \X TrackedInvocations :
        wg < NumWorkgroups /\ inv < WorkgroupSize}

\* the step whose dispatch also has the untracked matching seeds
BulkStep == StepOf(U32(0, 254))

\* the j-th untracked matching seed of a step, j from 0
BulkSeed(st, j) ==
    KernelSeed(st, (BulkBase + j) \div WorkgroupSize, (BulkBase + j) % WorkgroupSize)

----------------------------------------------------------------------------
(* State *)

VARIABLES
    rawArgs,          \* get_arguments(): the tokens of the command line
    arguments,        \* the normalised tokens
    lintOk,           \* lint_arguments(&arguments)
    pc,               \* where main is: "start", "loop", "gpu", "exited"
    step,             \* the loop variable of main
    exitCode,         \* the exit status, -1 while running
    stdout,           \* lines printed to stdout
    stderr,           \* lines printed to stderr
    matching,         \* followed seeds the predicate kernel accepts
    bulk,             \* number of untracked seeds of BulkStep it accepts
    dispatched,       \* the steps find_mersenne_seed was called with
    sessionsCreated,  \* GPU sessions (instance .. pipeline) created so far
    buffersCreated,   \* input/output/download buffer sets created so far
    input_data,       \* the words of the input buffer
    output,           \* the output buffer of the last dispatch: word 0 .. word 999
    pending,          \* accepting invocations that have not reserved yet
    slotOf,           \* invocation -> the index it reserved
    wrote,            \* invocations that are finished
    bulkPending,      \* untracked accepting invocations still to run
    bulkIdx,          \* the index the first of them reserved, -1 before
    visits,           \* followed seed -> invocations that evaluated it
    ret               \* what the last find_mersenne_seed returned

vars ==
    <<rawArgs, arguments, lintOk, pc, step, exitCode, stdout, stderr, matching,
      bulk, dispatched, sessionsCreated, buffersCreated, input_data, output,
      pending, slotOf, wrote, bulkPending, bulkIdx, visits, ret>>

gpuVars ==
    <<dispatched, sessionsCreated, buffersCreated, input_data, output, pending,
      slotOf, wrote, bulkPending, bulkIdx, visits, ret>>

NoResult == [some |-> FALSE, panic |-> FALSE, val |-> <<>>]

Line(kind, seed, n) == [kind |-> kind, seed |-> seed, n |-> n]

\* A mutant of CreateOutputBuffer: word 0 starts at 1.
CreateOutputBuffer_dirty == [w \in 0 .. max_results - 1 |-> IF w = 0 THEN 1 ELSE Zero]

\* a fresh buffer of max_results words, zeroed
CreateOutputBuffer == [w \in 0 .. max_results - 1 |-> IF w = 0 THEN 0 ELSE Zero]

InitRest ==
    /\ arguments = <<>>
    /\ lintOk = FALSE
    /\ pc = "start"
    /\ step = 0
    /\ exitCode = -1
    /\ stdout = <<>>
    /\ stderr = <<>>
    /\ dispatched = <<>>
    /\ sessionsCreated = 0
    /\ buffersCreated = 0
    /\ input_data = <<>>
    /\ output = <<>>
    /\ pending = {}
    /\ slotOf = <<>>
    /\ wrote = {}
    /\ bulkPending = 0
    /\ bulkIdx = -1
    /\ visits = [p \in Probes |-> 0]
    /\ ret = NoResult

\* a run of the program: on one observation, with any set of followed seeds
\* and possibly MaxBulk others of BulkStep matching it, or on another of the
\* lists with no followed seed matching
Init ==
    /\ \/ /\ rawArgs = OutputOfLastSeed
          /\ matching \in SUBSET Probes
          /\ bulk \in {0, MaxBulk}
       \/ /\ rawArgs \in RunArgs \cup PartialSlots
          /\ matching = {}
          /\ bulk = 0
    /\ InitRest

\* the argument handling alone, on every list of ArgLists
InitArgs ==
    /\ rawArgs \in ArgLists
    /\ matching = {}
    /\ bulk = 0
    /\ InitRest

----------------------------------------------------------------------------
(* main, up to the search loop *)

\* main.rs:304-309
Startup ==
    /\ pc = "start"
    /\ arguments' = normalize_arguments(rawArgs)
    /\ lintOk' = lint_arguments(arguments')
    /\ IF lintOk'
       THEN /\ pc' = "loop"
            /\ UNCHANGED <<stdout, exitCode>>
       ELSE /\ stdout' = Append(stdout, Line("usage", Zero, 0))
            /\ pc' = "exited"
            /\ exitCode' = 0
    /\ UNCHANGED <<rawArgs, step, stderr, matching, bulk>>
    /\ UNCHANGED gpuVars

----------------------------------------------------------------------------
(* find_mersenne_seed: the dispatch *)

EmptyMap == [i \in {} |-> 0]

\* the for loop of main.rs:317
InLoop(st) == st < NumSteps

\* A mutant of NextStep: the loop skips every other step.
NextStep_skip(st) == st + 2

NextStep(st) == st + 1

\* main.rs:66  assert!(step < 256);
AssertStep(st) == st < 256

\* A mutant of CreateSession: the session is built by the first call only.
CreateSession_once(n, st) == IF st = 0 THEN n + 1 ELSE n

\* main.rs:71-114, 155-220: instance, adapter, device, queue, shader module,
\* bind-group layout, pipeline layout and pipeline are built by every call
CreateSession(n, st) == n + 1

\* main.rs:116-118
InputData(st, args) == <<U32Of(st)>> \o args

\* the invocations of the followed grid whose candidate seed is accepted
Accepting(st) == {i \in Grid : KernelSeed(st, i[1], i[2]) \in matching}

\* main.rs:65-262
Dispatch ==
    /\ pc = "loop"
    /\ InLoop(step)
    /\ IF ~AssertStep(step)
       THEN /\ pc' = "exited"
            /\ exitCode' = 101
            /\ UNCHANGED <<stdout, gpuVars>>
       ELSE /\ pc' = "gpu"
            /\ dispatched' = Append(dispatched, step)
            /\ sessionsCreated' = CreateSession(sessionsCreated, step)
            /\ buffersCreated' = buffersCreated + 1
            /\ stdout' = IF step = 0
                         THEN Append(stdout, Line("adapter", Zero, 0))
                         ELSE stdout
            /\ input_data' = InputData(step, arguments)
            /\ output' = CreateOutputBuffer
            /\ pending' = Accepting(step)
            /\ slotOf' = EmptyMap
            /\ wrote' = {}
            /\ bulkPending' = IF step = BulkStep THEN bulk ELSE 0
            /\ bulkIdx' = -1
            /\ visits' = [p \in Probes |->
                            visits[p] + Cardinality({i \in Grid :
                                           KernelSeed(step, i[1], i[2]) = p})]
            /\ ret' = NoResult
            /\ UNCHANGED exitCode
    /\ UNCHANGED <<rawArgs, arguments, lintOk, step, stderr, matching, bulk>>

----------------------------------------------------------------------------
(* The kernel's append to the output buffer *)

\* atomicAdd(&output[0], 1) returns the counter before the add
ReserveIndex(counter) == counter

\* the write of word 1 + k is done only inside the buffer
WriteAllowed(k) == 1 + k < max_results

\* an accepting invocation reserves its index
InvocationReserve(i) ==
    /\ pc = "gpu"
    /\ i \in pending
    /\ pending' = pending \ {i}
    /\ slotOf' = [j \in DOMAIN slotOf \cup {i} |->
                    IF j = i THEN ReserveIndex(output[0]) ELSE slotOf[j]]
    /\ output' = [output EXCEPT ![0] = @ + 1]
    /\ UNCHANGED <<rawArgs, arguments, lintOk, pc, step, exitCode, stdout, stderr,
                   matching, bulk, dispatched, sessionsCreated, buffersCreated,
                   input_data, wrote, bulkPending, bulkIdx, visits, ret>>

\* and then writes its seed into the word it reserved
InvocationWrite(i) ==
    /\ pc = "gpu"
    /\ i \in DOMAIN slotOf
    /\ i \notin wrote
    /\ wrote' = wrote \cup {i}
    /\ output' = IF WriteAllowed(slotOf[i])
                 THEN [output EXCEPT ![1 + slotOf[i]] = KernelSeed(step, i[1], i[2])]
                 ELSE output
    /\ UNCHANGED <<rawArgs, arguments, lintOk, pc, step, exitCode, stdout, stderr,
                   matching, bulk, dispatched, sessionsCreated, buffersCreated,
                   input_data, pending, slotOf, bulkPending, bulkIdx, visits, ret>>

\* the untracked accepting invocations, run one after the other
BulkInvocations ==
    /\ pc = "gpu"
    /\ bulkPending > 0
    /\ bulkIdx' = output[0]
    /\ bulkPending' = 0
    /\ output' = [w \in DOMAIN output |->
                    IF w = 0 THEN output[0] + bulkPending
                    ELSE IF /\ w - 1 >= output[0]
                            /\ w - 1 < output[0] + bulkPending
                            /\ WriteAllowed(w - 1)
                         THEN BulkSeed(step, w - 1 - output[0])
                         ELSE output[w]]
    /\ UNCHANGED <<rawArgs, arguments, lintOk, pc, step, exitCode, stdout, stderr,
                   matching, bulk, dispatched, sessionsCreated, buffersCreated,
                   input_data, pending, slotOf, wrote, visits, ret>>

----------------------------------------------------------------------------
(* find_mersenne_seed: the read-back, and the match arm of main *)

\* A mutant of Overflowed: the length word itself is compared.
Overflowed_nolen(result) == result[0] > max_results

\* main.rs:289-291  subslice_end > result.len()
Overflowed(result) == 1 + result[0] > max_results

\* main.rs:298  &result[subslice_start..subslice_end]
UsefulResults(result) == [k \in 1 .. result[0] |-> result[k]]

\* device.poll(Wait) returns when every invocation has finished
GpuFinished == pending = {} /\ DOMAIN slotOf = wrote /\ bulkPending = 0

\* main.rs:264-300 and 318-328
Readback ==
    /\ pc = "gpu"
    /\ GpuFinished
    /\ IF Overflowed(output)
       THEN /\ stderr' = Append(stderr, "overflow")
            /\ ret' = NoResult
            /\ pc' = "exited"
            /\ exitCode' = 1
            /\ UNCHANGED <<stdout, step>>
       ELSE IF 1 + output[0] > max_results
       THEN \* the slice would reach past the buffer: Rust panics
            /\ ret' = [some |-> FALSE, panic |-> TRUE, val |-> <<>>]
            /\ pc' = "exited"
            /\ exitCode' = 101
            /\ UNCHANGED <<stdout, stderr, step>>
       ELSE /\ ret' = [some |-> TRUE, panic |-> FALSE, val |-> UsefulResults(output)]
            /\ stdout' = stdout
                         \o [k \in 1 .. output[0] |-> Line("seed", output[k], 0)]
                         \o <<Line("progress", Zero, step + 1)>>
            /\ step' = NextStep(step)
            /\ pc' = "loop"
            /\ UNCHANGED <<stderr, exitCode>>
    /\ UNCHANGED <<rawArgs, arguments, lintOk, matching, bulk, dispatched,
                   sessionsCreated, buffersCreated, input_data, output, pending,
                   slotOf, wrote, bulkPending, bulkIdx, visits>>

\* main.rs:329-332: the loop is over
Finish ==
    /\ pc = "loop"
    /\ ~InLoop(step)
    /\ stdout' = Append(stdout, Line("newline", Zero, 0))
    /\ pc' = "exited"
    /\ exitCode' = 0
    /\ UNCHANGED <<rawArgs, arguments, lintOk, step, stderr, matching, bulk>>
    /\ UNCHANGED gpuVars

----------------------------------------------------------------------------
(* Specifications *)

Next ==
    \/ Startup
    \/ Dispatch
    \/ \E i \in Grid : InvocationReserve(i)
    \/ \E i \in Grid : InvocationWrite(i)
    \/ BulkInvocations
    \/ Readback
    \/ Finish

Spec == Init /\ [][Next]_vars

NextArgs == Startup

SpecArgs == InitArgs /\ [][NextArgs]_vars

----------------------------------------------------------------------------
(* Vocabulary of the properties *)

\* a <= b on 32-bit words
Leq(a, b) == a[1] < b[1] \/ (a[1] = b[1] /\ a[2] <= b[2])

Last(q) == q[Len(q)]

Started == pc # "start"

\* the normalisation as the specification words it, by the case of K mod 4
RefNormalize(t) ==
    CASE Len(t) % 4 = 0 -> t
      [] Len(t) % 4 = 1 -> t \o <<t[Len(t)], Zero, Max31>>
      [] Len(t) % 4 = 2 -> t \o <<Zero, Max31>>
      [] Len(t) % 4 = 3 -> t

\* the 4-token slots of a token list
FullSlots(t) == {Chunk(t, i) : i \in 0 .. Len(t) \div 4 - 1}

\* the slot invariants of the data model, with the match interval contained
\* in the range interval
SlotContained(c) ==
    /\ Leq(c[1], c[2])
    /\ Leq(c[3], c[4])
    /\ Leq(c[4], Max31)
    /\ Leq(c[2], Max31)
    /\ Leq(c[3], c[1])
    /\ Leq(c[2], c[4])

\* the same, with the match interval only meeting the range interval
SlotMeets(c) ==
    /\ Leq(c[1], c[2])
    /\ Leq(c[3], c[4])
    /\ Leq(c[4], Max31)
    /\ Leq(c[2], Max31)
    /\ Leq(c[3], c[2])
    /\ Leq(c[1], c[4])

SeedLines == {k \in 1 .. Len(stdout) : stdout[k].kind = "seed"}

Printed == {stdout[k].seed : k \in SeedLines}

CompletedRun == pc = "exited" /\ exitCode = 0 /\ lintOk

----------------------------------------------------------------------------
(* C5 *)

\* C5: normalize_arguments is the reference normalisation: a list of K tokens
\* is unchanged when K mod 4 is 0 or 3, gets 0 and 0x7fffffff appended when
\* K mod 4 is 2, and its last token duplicated first when K mod 4 is 1; the
\* tokens given are never changed.
C5_Normalize ==
    Started =>
        /\ arguments = RefNormalize(rawArgs)
        /\ Len(arguments) >= Len(rawArgs)
        /\ \A k \in 1 .. Len(rawArgs) : arguments[k] = rawArgs[k]
        /\ Len(rawArgs) = 1 => arguments = <<rawArgs[1], rawArgs[1], Zero, Max31>>
        /\ Len(rawArgs) = 2 => arguments = <<rawArgs[1], rawArgs[2], Zero, Max31>>

C5_Witness ==
    /\ Started
    /\ Len(rawArgs) > 4
    /\ Len(rawArgs) % 4 = 1
    /\ Len(arguments) = Len(rawArgs) + 3
    /\ arguments[Len(rawArgs) + 1] = Last(rawArgs)

----------------------------------------------------------------------------
(* C3 *)

----------------------------------------------------------------------------
(* C6, C4 *)

\* C6: when lint fails on the normalised arguments, as it does for the empty
\* list and for every list of K tokens with K mod 4 = 3, the run prints
\* usage and nothing else, dispatches no step and exits with status 0.
C6_LintFailure ==
    Started =>
        /\ (rawArgs = <<>> \/ Len(rawArgs) % 4 = 3) => ~lintOk
        /\ ~lintOk =>
              /\ pc = "exited"
              /\ exitCode = 0
              /\ stdout = <<Line("usage", Zero, 0)>>
              /\ stderr = <<>>
              /\ dispatched = <<>>
              /\ sessionsCreated = 0
              /\ input_data = <<>>

C6_Witness ==
    /\ pc = "exited"
    /\ Len(rawArgs) % 4 = 3
    /\ Len(rawArgs) > 4
    /\ ~lintOk
    /\ stdout = <<Line("usage", Zero, 0)>>

\* C4: lint rejects every list of more than 8 slots, so the input buffer of
\* a dispatch has 1 + 4N words with 1 <= N <= 8, within the 33-word window.
C4_SlotCap ==
    /\ (Started /\ lintOk) => Len(arguments) <= 4 * 8
    /\ input_data # <<>> =>
          /\ Len(input_data) <= 33
          /\ \E N \in 1 .. 8 : Len(input_data) = 1 + 4 * N

----------------------------------------------------------------------------
(* C7 *)

\* the step of the last call of find_mersenne_seed
LastStep == Last(dispatched)

\* the last call has returned
Returned == dispatched # <<>> /\ pc # "gpu"

\* C7: after a dispatch whose word 0 is above 999 the call returns nothing,
\* no seed of that step is printed, no later step is dispatched and the
\* process exits with a nonzero status after a diagnostic; otherwise the
\* call returns words 1 .. word0, all of them inside the 1000-word buffer.
C7_Overflow ==
    Returned =>
        IF 1 + output[0] > 1000
        THEN /\ ret = NoResult
             /\ pc = "exited"
             /\ exitCode = 1
             /\ stderr = <<"overflow">>
             /\ LastStep = step
             /\ \A k \in SeedLines : StepOf(stdout[k].seed) # LastStep
        ELSE /\ ret.some
             /\ ~ret.panic
             /\ Len(ret.val) = output[0]
             /\ \A k \in 1 .. Len(ret.val) : k <= 999 /\ ret.val[k] = output[k]
             /\ stderr = <<>>
             /\ exitCode \in {-1, 0}

\* a dispatch of exactly 1000 matches, in a step that is not the last
C7_Witness ==
    /\ Returned
    /\ output[0] = 1000
    /\ exitCode = 1
    /\ LastStep < NumSteps - 1

----------------------------------------------------------------------------
(* C8 *)

\* number of untracked accepting invocations of the last dispatch
BulkOf(st) == IF st = BulkStep THEN bulk ELSE 0

\* the indices the untracked invocations reserved
BulkRange == IF bulkIdx < 0 THEN {} ELSE bulkIdx .. bulkIdx + BulkOf(LastStep) - 1

\* the seeds of all accepting invocations of the last dispatch
AcceptingSeeds ==
    {KernelSeed(LastStep, i[1], i[2]) : i \in Accepting(LastStep)}
        \cup {BulkSeed(LastStep, j) : j \in 0 .. BulkOf(LastStep) - 1}

\* the buffer with the seeds of the invocations of S written at their indices
RECURSIVE WithWrites(_, _)
WithWrites(buf, S) ==
    IF S = {}
    THEN buf
    ELSE LET i == CHOOSE j \in S : TRUE
             w == 1 + slotOf[i]
         IN  WithWrites(IF w \in DOMAIN buf
                        THEN [buf EXCEPT ![w] = KernelSeed(LastStep, i[1], i[2])]
                        ELSE buf,
                        S \ {i})

\* the fresh buffer with the seeds of the untracked invocations, once they ran
WithBulk ==
    IF bulkIdx < 0
    THEN CreateOutputBuffer
    ELSE [w \in DOMAIN CreateOutputBuffer |->
            IF w > 0 /\ w - 1 \in BulkRange
            THEN BulkSeed(LastStep, w - 1 - bulkIdx)
            ELSE CreateOutputBuffer[w]]

\* what the output buffer has to hold: the reservations counted in word 0,
\* every finished invocation's seed in the word after its index, the rest
\* as created
ExpectedBuffer ==
    [WithWrites(WithBulk, wrote) EXCEPT
        ![0] = Cardinality(DOMAIN slotOf) + Cardinality(BulkRange)]

\* C8: in every interleaving of the accepting invocations of a dispatch the
\* reserved indices are distinct, word 0 counts the reservations, a seed is
\* written to word 1 + k of its own index k and only inside the buffer; when
\* all have finished word 0 is the number of accepting invocations, and if
\* it is at most 999 words 1 .. word0 hold each accepting seed exactly once.
C8_ResultRing ==
    pc = "gpu" =>
        /\ \A i, j \in DOMAIN slotOf : i # j => slotOf[i] # slotOf[j]
        /\ \A i \in DOMAIN slotOf : slotOf[i] \notin BulkRange
        /\ DOMAIN output = 0 .. 999
        /\ output = ExpectedBuffer
        /\ GpuFinished =>
              /\ output[0] = Cardinality(Accepting(LastStep)) + BulkOf(LastStep)
              /\ output[0] <= 999 =>
                    /\ {output[w] : w \in 1 .. output[0]} = AcceptingSeeds
                    /\ Cardinality(AcceptingSeeds) = output[0]

\* two followed invocations around the untracked ones, the last reservation
\* falling outside the buffer
C8_Witness ==
    /\ pc = "gpu"
    /\ GpuFinished
    /\ Cardinality(wrote) = 2
    /\ bulkIdx = 1
    /\ output[0] = 1000
    /\ \E i \in wrote : slotOf[i] = 999

----------------------------------------------------------------------------
(* C9 *)

----------------------------------------------------------------------------
(* C10 *)

IsProgress(line) == line.kind = "progress"

\* the progress lines printed so far, in order
ProgressLines == SelectSeq(stdout, IsProgress)

\* they are 1 / 256, 2 / 256, .. and, outside a call, as many as there were calls
ProgressCounts(lines) ==
    /\ lines = [k \in 1 .. Len(lines) |-> Line("progress", Zero, k)]
    /\ pc = "gpu" => Len(dispatched) = Len(lines) + 1
    /\ pc = "loop" => Len(dispatched) = Len(lines) /\ step = Len(lines)

\* where a line belongs in the output of a run: the banner, then for each
\* step its seeds and its progress line, then the closing newline
Rank(line) ==
    CASE line.kind = "adapter"  -> -1
      [] line.kind = "seed"     -> 2 * StepOf(line.seed)
      [] line.kind = "progress" -> 2 * line.n - 1
      [] line.kind = "newline"  -> 2 * NumSteps
      [] OTHER                  -> -2

\* C10: a run that passes lint dispatches steps 0, 1, .. in ascending order,
\* each once and only after the output of the step before has been read and
\* printed; the seeds of step k come before the progress line k + 1 and
\* before the seeds of later steps; without an overflow the run ends after
\* progress 256 with status 0; every step passed is below 256.
C10_StepOrder ==
    /\ \A k \in 1 .. Len(dispatched) : dispatched[k] = k - 1 /\ dispatched[k] < 256
    /\ ProgressCounts(ProgressLines)
    /\ \A k \in 1 .. Len(stdout) - 1 : Rank(stdout[k]) <= Rank(stdout[k + 1])
    /\ (pc = "loop" /\ dispatched # <<>>) =>
          /\ ret.some
          /\ Last(stdout) = Line("progress", Zero, step)
          /\ \A k \in 1 .. Len(ret.val) :
                stdout[Len(stdout) - 1 - Len(ret.val) + k] = Line("seed", ret.val[k], 0)
    /\ (pc = "exited" /\ lintOk /\ stderr = <<>>) =>
          /\ exitCode = 0
          /\ Len(dispatched) = 256
          /\ Last(stdout) = Line("newline", Zero, 0)
          /\ stdout[Len(stdout) - 1] = Line("progress", Zero, 256)

\* a complete run that printed seeds of three different steps
C10_Witness ==
    /\ CompletedRun
    /\ Cardinality({StepOf(p) : p \in Printed}) = 3
    /\ Len(ProgressLines) = 256

----------------------------------------------------------------------------
(* C1, C2 *)

\* C1: a seed whose outputs make up the slots (so that the predicate accepts
\* it) is among the seeds the call for its step returns, and among the seeds
\* a full run prints.
C1_RoundTrip ==
    /\ (Returned /\ ret.some) =>
          \A p \in matching :
              StepOf(p) = LastStep => \E k \in 1 .. Len(ret.val) : ret.val[k] = p
    /\ CompletedRun => matching \subseteq Printed

\* C2: the 256 dispatches of a complete run evaluate every seed exactly once.
C2_EverySeedOnce ==
    /\ \A p \in Probes : visits[p] <= 1
    /\ CompletedRun => \A p \in Probes : visits[p] = 1

=============================================================================
